---- MODULE Spec2Model ----
(***************************************************************************)
(* Conway's Game of Life (gameoflife-rs).                                  *)
(*                                                                         *)
(* src/src/game.rs : Grid, Operation, ConwaySim (library form).            *)
(* src/src/main.rs : an older copy of the same types plus the driver main. *)
(*                                                                         *)
(* A Rust panic (a slice index past the end of the Vec) is modelled as a   *)
(* result record [panic |-> TRUE, ...]; an access that does not panic      *)
(* returns [panic |-> FALSE, value |-> v].  Vec indices are 0-based in the *)
(* source and 1-based in the sequences below (grid[index + 1]).            *)
(* All u32 values stay far below 2^32 within the bounds used here.         *)
(***************************************************************************)
EXTENDS Integers, Sequences, FiniteSets

\* ---------------------------------------------------------------- bounds
\* Largest number of rows / columns / cells of a grid built by ConwaySim::new.
MaxRows == 3
MaxCols == 3
MaxArea == 9
\* Largest number of step() calls on one simulation.
MaxGen == 3
\* Longest slice handed to set_cells.
MaxLen == 2
\* Side of the square grid the block still life is placed in.
BlockSize == 5

\* ------------------------------------------------------ program constants
\* main.rs: Grid::new(5, 5) and for _i in 0..105
MainRows == 5
MainCols == 5
Iterations == 105

VARIABLES
    num_rows,    \* Grid.num_rows
    num_cols,    \* Grid.num_cols
    grid,        \* Grid.grid, row-major
    generation,  \* ConwaySim.generation
    pc,          \* position of the caller / of step()
    row,         \* step(): outer loop variable
    col,         \* step(): inner loop variable
    operations,  \* step(): local Vec<Operation>
    i,           \* main(): loop variable _i
    pre_grid,    \* history: Grid.grid at entry of the running step(), <<>> otherwise
    step_calls   \* history: number of step() calls made so far

vars == <<num_rows, num_cols, grid, generation, pc, row, col, operations, i,
          pre_grid, step_calls>>

Dead == "Dead"
Alive == "Alive"

\* The Grid value a method receives as self.
Self == [num_rows |-> num_rows, num_cols |-> num_cols, grid |-> grid]

\* ================================================================ game.rs

\* Grid::new: vec![Cell::Dead; num_rows * num_cols]
Grid_new(nr, nc) ==
    [num_rows |-> nr, num_cols |-> nc, grid |-> [k \in 1..(nr * nc) |-> Dead]]

\* Grid::cell_to_index
cell_to_index(self, r, c) == (r * self.num_cols) + c

\* Grid::get: self.grid[index] panics iff index >= len.
get(self, r, c) ==
    LET index == cell_to_index(self, r, c)
    IN  IF index < Len(self.grid)
        THEN [panic |-> FALSE, value |-> self.grid[index + 1]]
        ELSE [panic |-> TRUE, value |-> Dead]

\* Grid::set: self.grid[index] = state panics iff index >= len.
set(self, r, c, state) ==
    LET index == cell_to_index(self, r, c)
    IN  IF index < Len(self.grid)
        THEN [panic |-> FALSE, grid |-> [self.grid EXCEPT ![index + 1] = state]]
        ELSE [panic |-> TRUE, grid |-> self.grid]

\* Grid::set_cells / ConwaySim::set_cells: the loop stops at the first panic,
\* keeping the writes already made.
RECURSIVE set_cells(_, _)
set_cells(self, cells) ==
    IF cells = <<>>
    THEN [panic |-> FALSE, grid |-> self.grid]
    ELSE LET idx == cell_to_index(self, Head(cells)[1], Head(cells)[2])
         IN  IF idx < Len(self.grid)
             THEN set_cells([self EXCEPT !.grid[idx + 1] = Alive], Tail(cells))
             ELSE [panic |-> TRUE, grid |-> self.grid]

\* ConwaySim::is_cell_alive
is_cell_alive(self, r, c) ==
    LET cell == get(self, r, c)
    IN  [panic |-> cell.panic, value |-> (~cell.panic /\ cell.value = Alive)]

\* ConwaySim::is_any_cell_alive
is_any_cell_alive(self) == \E k \in 1..Len(self.grid) : self.grid[k] = Alive

\* ---- ConwaySim::get_neighbor_count: the eight guarded probes, in source
\* order.  Each yields the position it reads, or nothing when its guard fails.
top_left(self, r, c) ==
    IF (r > 0) /\ (c > 0) THEN << <<r - 1, c - 1>> >> ELSE <<>>

top_center(self, r, c) ==
    IF r > 0 THEN << <<r - 1, c>> >> ELSE <<>>

\* Faulty variant: the column guard is left out: at the last column the probe
\* lands on the first cell of the following row.
top_right_unguarded(self, r, c) ==
    IF r > 0 THEN << <<r - 1, c + 1>> >> ELSE <<>>

top_right(self, r, c) ==
    IF (r > 0) /\ ((c + 1) < self.num_cols) THEN << <<r - 1, c + 1>> >> ELSE <<>>

\* Faulty variant: toroidal left neighbour: column 0 wraps to the last column.
left_wraps(self, r, c) ==
    IF c > 0 THEN << <<r, c - 1>> >> ELSE << <<r, self.num_cols - 1>> >>

left(self, r, c) ==
    IF c > 0 THEN << <<r, c - 1>> >> ELSE <<>>

\* Faulty variant: off-by-one guard: (col + 1) <= num_cols.
right_off_by_one(self, r, c) ==
    IF (c + 1) <= self.num_cols THEN << <<r, c + 1>> >> ELSE <<>>

right(self, r, c) ==
    IF (c + 1) < self.num_cols THEN << <<r, c + 1>> >> ELSE <<>>

bottom_left(self, r, c) ==
    IF ((r + 1) < self.num_rows) /\ (c > 0) THEN << <<r + 1, c - 1>> >> ELSE <<>>

\* Faulty variant: the bottom centre probe is left out.
bottom_center_missing(self, r, c) == <<>>

bottom_center(self, r, c) ==
    IF (r + 1) < self.num_rows THEN << <<r + 1, c>> >> ELSE <<>>

bottom_right(self, r, c) ==
    IF ((r + 1) < self.num_rows) /\ ((c + 1) < self.num_cols)
    THEN << <<r + 1, c + 1>> >> ELSE <<>>

\* The positions get_neighbor_count reads for (r, c), in order.
neighbor_probes(self, r, c) ==
    top_left(self, r, c) \o top_center(self, r, c) \o top_right(self, r, c)
    \o left(self, r, c) \o right(self, r, c)
    \o bottom_left(self, r, c) \o bottom_center(self, r, c)
    \o bottom_right(self, r, c)

\* ConwaySim::get_neighbor_count: count += 1 for every probe that is alive;
\* panics if a probe's is_cell_alive panics.
get_neighbor_count(self, r, c) ==
    LET probes == neighbor_probes(self, r, c)
        reads == [k \in 1..Len(probes) |->
                     is_cell_alive(self, probes[k][1], probes[k][2])]
    IN  [panic |-> \E k \in 1..Len(probes) : reads[k].panic,
         value |-> Cardinality({k \in 1..Len(probes) : reads[k].value})]

\* Operation::new
Operation_new(r, c, state) == [row |-> r, col |-> c, state |-> state]

\* Faulty variant: rule 1 left out: a live cell with fewer than two neighbours lives.
rules_no_underpopulation(alive, neighbor_count, r, c) ==
    IF alive
    THEN IF neighbor_count <= 3 THEN <<>>
         ELSE <<Operation_new(r, c, Dead)>>
    ELSE IF neighbor_count = 3 THEN <<Operation_new(r, c, Alive)>> ELSE <<>>

\* Faulty variant: rule 2 with the wrong bound: survival only with exactly two.
rules_survive_two_only(alive, neighbor_count, r, c) ==
    IF alive
    THEN IF neighbor_count < 2 THEN <<Operation_new(r, c, Dead)>>
         ELSE IF neighbor_count <= 2 THEN <<>>
         ELSE <<Operation_new(r, c, Dead)>>
    ELSE IF neighbor_count = 3 THEN <<Operation_new(r, c, Alive)>> ELSE <<>>

\* Faulty variant: rule 2 pushes a redundant Alive operation for a surviving cell.
rules_redundant_survivor(alive, neighbor_count, r, c) ==
    IF alive
    THEN IF neighbor_count < 2 THEN <<Operation_new(r, c, Dead)>>
         ELSE IF neighbor_count <= 3 THEN <<Operation_new(r, c, Alive)>>
         ELSE <<Operation_new(r, c, Dead)>>
    ELSE IF neighbor_count = 3 THEN <<Operation_new(r, c, Alive)>> ELSE <<>>

\* ConwaySim::apply_rules, the if/else ladder over (alive, neighbor_count).
rules(alive, neighbor_count, r, c) ==
    IF alive
    THEN IF neighbor_count < 2 THEN <<Operation_new(r, c, Dead)>>
         ELSE IF neighbor_count <= 3 THEN <<>>
         ELSE <<Operation_new(r, c, Dead)>>
    ELSE IF neighbor_count = 3 THEN <<Operation_new(r, c, Alive)>> ELSE <<>>

\* ConwaySim::apply_rules
apply_rules(self, r, c) ==
    LET neighbor_count == get_neighbor_count(self, r, c)
        alive == is_cell_alive(self, r, c)
    IN  [panic |-> neighbor_count.panic \/ alive.panic,
         value |-> rules(alive.value, neighbor_count.value, r, c)]

\* Faulty variant: the counter is only advanced while something is alive.
next_generation_if_alive(self, gen) ==
    IF is_any_cell_alive(self) THEN gen + 1 ELSE gen

\* ConwaySim::step: self.generation += 1
next_generation(self, gen) == gen + 1

\* ------------------------------------------------------------ actions

\* ConwaySim::new(num_rows, num_cols)
Init ==
    /\ \E nr \in 0..MaxRows, nc \in 0..MaxCols :
          /\ nr * nc <= MaxArea
          /\ num_rows = nr
          /\ num_cols = nc
          /\ grid = Grid_new(nr, nc).grid
    /\ generation = 0
    /\ pc = "idle"
    /\ row = 0
    /\ col = 0
    /\ operations = <<>>
    /\ i = 0
    /\ pre_grid = <<>>
    /\ step_calls = 0

\* The coordinates a caller may pass: every cell, and one past each edge.
Coords == (0..num_rows) \X (0..num_cols)

CellSlices == UNION {[1..n -> Coords] : n \in 0..MaxLen}

\* A call of ConwaySim::set_cells(cells), between steps.
SetCells ==
    /\ pc = "idle"
    /\ \E cells \in CellSlices :
          LET res == set_cells(Self, cells)
          IN  /\ grid' = res.grid
              /\ pc' = IF res.panic THEN "set_cells_panicked" ELSE "idle"
    /\ UNCHANGED <<num_rows, num_cols, generation, row, col, operations, i,
                   pre_grid, step_calls>>

\* step(): entry, lines 289-295.
StepBegin ==
    /\ pc = "idle"
    /\ generation < MaxGen
    /\ operations' = <<>>
    /\ generation' = next_generation(Self, generation)
    /\ row' = 0
    /\ col' = 0
    /\ pc' = "eval"
    /\ pre_grid' = grid
    /\ step_calls' = step_calls + 1
    /\ UNCHANGED <<num_rows, num_cols, grid, i>>

\* step(): one pass of the inner loop body, lines 296-302.
StepEval ==
    /\ pc = "eval"
    /\ row < num_rows
    /\ col < num_cols
    /\ LET results == apply_rules(Self, row, col)
       IN  IF results.panic
           THEN /\ pc' = "step_panicked"
                /\ UNCHANGED <<operations, col>>
           ELSE /\ operations' = operations \o results.value
                /\ col' = col + 1
                /\ pc' = pc
    /\ UNCHANGED <<num_rows, num_cols, grid, generation, row, i, pre_grid,
                   step_calls>>

\* step(): the inner loop is exhausted; next row.
StepNextRow ==
    /\ pc = "eval"
    /\ row < num_rows
    /\ col >= num_cols
    /\ row' = row + 1
    /\ col' = 0
    /\ UNCHANGED <<num_rows, num_cols, grid, generation, pc, operations, i,
                   pre_grid, step_calls>>

\* step(): the outer loop is exhausted; on to the commit loop, line 306.
StepEvalDone ==
    /\ pc = "eval"
    /\ row >= num_rows
    /\ pc' = "commit"
    /\ UNCHANGED <<num_rows, num_cols, grid, generation, row, col, operations,
                   i, pre_grid, step_calls>>

\* step(): one pass of the commit loop, lines 306-308 (the Vec is consumed).
StepCommit ==
    /\ pc = "commit"
    /\ operations # <<>>
    /\ LET operation == Head(operations)
           res == set(Self, operation.row, operation.col, operation.state)
       IN  /\ grid' = res.grid
           /\ pc' = IF res.panic THEN "step_panicked" ELSE pc
    /\ operations' = Tail(operations)
    /\ UNCHANGED <<num_rows, num_cols, generation, row, col, i, pre_grid,
                   step_calls>>

\* step(): return, line 309.
StepReturn ==
    /\ pc = "commit"
    /\ operations = <<>>
    /\ pc' = "idle"
    /\ pre_grid' = <<>>
    /\ UNCHANGED <<num_rows, num_cols, grid, generation, row, col, operations,
                   i, step_calls>>

Next ==
    \/ SetCells
    \/ StepBegin
    \/ StepEval
    \/ StepNextRow
    \/ StepEvalDone
    \/ StepCommit
    \/ StepReturn

Spec == Init /\ [][Next]_vars

\* ------------------------- the two seed patterns on a square grid (game.rs)

\* The 2x2 block with its top-left corner at (1, 1).
BlockCells == << <<1, 1>>, <<1, 2>>, <<2, 1>>, <<2, 2>> >>

\* The horizontal blinker main.rs seeds.
BlinkerCells == << <<2, 1>>, <<2, 2>>, <<2, 3>> >>

\* ConwaySim::new(BlockSize, BlockSize), not yet seeded.
InitPatterns ==
    /\ num_rows = BlockSize
    /\ num_cols = BlockSize
    /\ grid = Grid_new(BlockSize, BlockSize).grid
    /\ generation = 0
    /\ pc = "new"
    /\ row = 0
    /\ col = 0
    /\ operations = <<>>
    /\ i = 0
    /\ pre_grid = <<>>
    /\ step_calls = 0

\* sim.set_cells(&[...]) with one of the two patterns, once, before stepping.
Seed ==
    /\ pc = "new"
    /\ \E cells \in {BlockCells, BlinkerCells} :
          LET res == set_cells(Self, cells)
          IN  /\ grid' = res.grid
              /\ pc' = IF res.panic THEN "set_cells_panicked" ELSE "idle"
    /\ UNCHANGED <<num_rows, num_cols, generation, row, col, operations, i,
                   pre_grid, step_calls>>

NextPatterns ==
    \/ Seed
    \/ StepBegin
    \/ StepEval
    \/ StepNextRow
    \/ StepEvalDone
    \/ StepCommit
    \/ StepReturn

SpecPatterns == InitPatterns /\ [][NextPatterns]_vars

\* ================================================================ main.rs

\* Grid::new
main_Grid_new(nr, nc) ==
    [num_rows |-> nr, num_cols |-> nc, grid |-> [k \in 1..(nr * nc) |-> Dead]]

\* Grid::get_index
main_get_index(self, r, c) == (r * self.num_cols) + c

\* Grid::get
main_get(self, r, c) ==
    LET index == main_get_index(self, r, c)
    IN  IF index < Len(self.grid)
        THEN [panic |-> FALSE, value |-> self.grid[index + 1]]
        ELSE [panic |-> TRUE, value |-> Dead]

\* Grid::set
main_set(self, r, c, state) ==
    LET index == main_get_index(self, r, c)
    IN  IF index < Len(self.grid)
        THEN [panic |-> FALSE, grid |-> [self.grid EXCEPT ![index + 1] = state]]
        ELSE [panic |-> TRUE, grid |-> self.grid]

\* Grid::is_cell_alive
main_is_cell_alive(self, r, c) ==
    LET cell == main_get(self, r, c)
    IN  [panic |-> cell.panic, value |-> (~cell.panic /\ cell.value = Alive)]

\* Grid::is_any_cell_alive
main_is_any_cell_alive(self) ==
    \E k \in 1..Len(self.grid) : self.grid[k] = Alive

\* Grid::get_neighbor_count: the positions read, in source order.
main_neighbor_probes(self, r, c) ==
    (IF (r > 0) /\ (c > 0) THEN << <<r - 1, c - 1>> >> ELSE <<>>)
    \o (IF r > 0 THEN << <<r - 1, c>> >> ELSE <<>>)
    \o (IF (r > 0) /\ ((c + 1) < self.num_cols)
        THEN << <<r - 1, c + 1>> >> ELSE <<>>)
    \o (IF c > 0 THEN << <<r, c - 1>> >> ELSE <<>>)
    \o (IF (c + 1) < self.num_cols THEN << <<r, c + 1>> >> ELSE <<>>)
    \o (IF ((r + 1) < self.num_rows) /\ (c > 0)
        THEN << <<r + 1, c - 1>> >> ELSE <<>>)
    \o (IF (r + 1) < self.num_rows THEN << <<r + 1, c>> >> ELSE <<>>)
    \o (IF ((r + 1) < self.num_rows) /\ ((c + 1) < self.num_cols)
        THEN << <<r + 1, c + 1>> >> ELSE <<>>)

\* Grid::get_neighbor_count
main_get_neighbor_count(self, r, c) ==
    LET probes == main_neighbor_probes(self, r, c)
        reads == [k \in 1..Len(probes) |->
                     main_is_cell_alive(self, probes[k][1], probes[k][2])]
    IN  [panic |-> \E k \in 1..Len(probes) : reads[k].panic,
         value |-> Cardinality({k \in 1..Len(probes) : reads[k].value})]

\* Faulty variant: reproduction with two or three neighbours instead of exactly three.
main_rules_birth_on_two(alive, neighbor_count, r, c) ==
    IF alive
    THEN IF neighbor_count < 2 THEN <<Operation_new(r, c, Dead)>>
         ELSE IF neighbor_count <= 3 THEN <<>>
         ELSE <<Operation_new(r, c, Dead)>>
    ELSE IF neighbor_count >= 2 /\ neighbor_count <= 3
         THEN <<Operation_new(r, c, Alive)>> ELSE <<>>

\* ConwaySim::apply_rules, the if/else ladder over (alive, neighbor_count).
main_rules(alive, neighbor_count, r, c) ==
    IF alive
    THEN IF neighbor_count < 2 THEN <<Operation_new(r, c, Dead)>>
         ELSE IF neighbor_count <= 3 THEN <<>>
         ELSE <<Operation_new(r, c, Dead)>>
    ELSE IF neighbor_count = 3 THEN <<Operation_new(r, c, Alive)>> ELSE <<>>

\* ConwaySim::apply_rules
main_apply_rules(self, r, c) ==
    LET neighbor_count == main_get_neighbor_count(self, r, c)
        alive == main_is_cell_alive(self, r, c)
    IN  [panic |-> neighbor_count.panic \/ alive.panic,
         value |-> main_rules(alive.value, neighbor_count.value, r, c)]

\* main(): after let mut grid = Grid::new(5, 5)
InitMain ==
    /\ num_rows = MainRows
    /\ num_cols = MainCols
    /\ grid = main_Grid_new(MainRows, MainCols).grid
    /\ generation = 0
    /\ pc = "main_seed"
    /\ row = 0
    /\ col = 0
    /\ operations = <<>>
    /\ i = 0
    /\ pre_grid = <<>>
    /\ step_calls = 0

\* main(): grid.set(2,1), grid.set(2,2), grid.set(2,3), ConwaySim::new(grid)
MainSeed ==
    /\ pc = "main_seed"
    /\ LET s1 == main_set(Self, 2, 1, Alive)
           s2 == main_set([Self EXCEPT !.grid = s1.grid], 2, 2, Alive)
           s3 == main_set([Self EXCEPT !.grid = s2.grid], 2, 3, Alive)
       IN  IF s1.panic \/ s2.panic \/ s3.panic
           THEN /\ pc' = "main_panicked"
                /\ UNCHANGED grid
           ELSE /\ grid' = s3.grid
                /\ pc' = "main_loop"
    /\ generation' = 0
    /\ UNCHANGED <<num_rows, num_cols, row, col, operations, i, pre_grid,
                   step_calls>>

\* main(): the for loop takes its next value and calls sim.step();
\* step() entry, lines 251-257.
MainStepBegin ==
    /\ pc = "main_loop"
    /\ i < Iterations
    /\ operations' = <<>>
    /\ generation' = generation + 1
    /\ row' = 0
    /\ col' = 0
    /\ pc' = "main_eval"
    /\ pre_grid' = grid
    /\ step_calls' = step_calls + 1
    /\ UNCHANGED <<num_rows, num_cols, grid, i>>

\* step(): one pass of the inner loop body, lines 258-264.
MainStepEval ==
    /\ pc = "main_eval"
    /\ row < num_rows
    /\ col < num_cols
    /\ LET results == main_apply_rules(Self, row, col)
       IN  IF results.panic
           THEN /\ pc' = "main_panicked"
                /\ UNCHANGED <<operations, col>>
           ELSE /\ operations' = operations \o results.value
                /\ col' = col + 1
                /\ pc' = pc
    /\ UNCHANGED <<num_rows, num_cols, grid, generation, row, i, pre_grid,
                   step_calls>>

MainStepNextRow ==
    /\ pc = "main_eval"
    /\ row < num_rows
    /\ col >= num_cols
    /\ row' = row + 1
    /\ col' = 0
    /\ UNCHANGED <<num_rows, num_cols, grid, generation, pc, operations, i,
                   pre_grid, step_calls>>

MainStepEvalDone ==
    /\ pc = "main_eval"
    /\ row >= num_rows
    /\ pc' = "main_commit"
    /\ UNCHANGED <<num_rows, num_cols, grid, generation, row, col, operations,
                   i, pre_grid, step_calls>>

\* step(): one pass of the commit loop, lines 268-270.
MainStepCommit ==
    /\ pc = "main_commit"
    /\ operations # <<>>
    /\ LET operation == Head(operations)
           res == main_set(Self, operation.row, operation.col, operation.state)
       IN  /\ grid' = res.grid
           /\ pc' = IF res.panic THEN "main_panicked" ELSE pc
    /\ operations' = Tail(operations)
    /\ UNCHANGED <<num_rows, num_cols, generation, row, col, i, pre_grid,
                   step_calls>>

\* step() returns to main's loop body.
MainStepReturn ==
    /\ pc = "main_commit"
    /\ operations = <<>>
    /\ pc' = "main_check"
    /\ pre_grid' = <<>>
    /\ UNCHANGED <<num_rows, num_cols, grid, generation, row, col, operations,
                   i, step_calls>>

\* main(): the prints, then if !sim.grid.is_any_cell_alive() { break; }
MainCheck ==
    /\ pc = "main_check"
    /\ IF ~main_is_any_cell_alive(Self)
       THEN /\ pc' = "main_done"
            /\ UNCHANGED i
       ELSE /\ pc' = "main_loop"
            /\ i' = i + 1
    /\ UNCHANGED <<num_rows, num_cols, grid, generation, row, col, operations,
                   pre_grid, step_calls>>

\* main(): the range 0..105 is exhausted.
MainLoopExit ==
    /\ pc = "main_loop"
    /\ i >= Iterations
    /\ pc' = "main_done"
    /\ UNCHANGED <<num_rows, num_cols, grid, generation, row, col, operations,
                   i, pre_grid, step_calls>>

NextMain ==
    \/ MainSeed
    \/ MainStepBegin
    \/ MainStepEval
    \/ MainStepNextRow
    \/ MainStepEvalDone
    \/ MainStepCommit
    \/ MainStepReturn
    \/ MainCheck
    \/ MainLoopExit

SpecMain == InitMain /\ [][NextMain]_vars

\* The runs of the main.rs driver together with the runs of a game.rs
\* simulation seeded with one of the two patterns: every behaviour is a run of
\* one of the two programs (their pc values are disjoint).
SpecBlinker ==
    (InitMain \/ InitPatterns) /\ [][NextMain \/ NextPatterns]_vars

\* ================================================================ claims

\* ---- reference notions the claims are stated with (independent of the code)

\* The state of cell (r, c) of a row-major cell array g that is nc wide.
CellAt(g, nc, r, c) == g[(r * nc) + c + 1]

InGrid(nr, nc, r, c) == r >= 0 /\ r < nr /\ c >= 0 /\ c < nc

Cells(nr, nc) == (0..(nr - 1)) \X (0..(nc - 1))

\* Alive cells among the Moore neighbours of (r, c) that lie inside the grid.
MooreCount(g, nr, nc, r, c) ==
    Cardinality({d \in {-1, 0, 1} \X {-1, 0, 1} :
                    /\ d # <<0, 0>>
                    /\ InGrid(nr, nc, r + d[1], c + d[2])
                    /\ CellAt(g, nc, r + d[1], c + d[2]) = Alive})

LiveSet(g, nr, nc) == {p \in Cells(nr, nc) : CellAt(g, nc, p[1], p[2]) = Alive}

\* Conway's rule for the next state of (r, c) in g.
LivesNext(g, nr, nc, r, c) ==
    LET n == MooreCount(g, nr, nc, r, c)
    IN  \/ CellAt(g, nc, r, c) = Alive /\ n \in {2, 3}
        \/ CellAt(g, nc, r, c) = Dead /\ n = 3

\* A step() has applied all of its operations and is about to return.
StepFinished == pc = "commit" /\ operations = <<>>

\* C1: after one step() a cell is Alive iff, in the grid at the start of the
\* step, it was Alive with 2 or 3 live neighbours or Dead with exactly 3;
\* every other cell is Dead.
C1_ConwayRules ==
    StepFinished =>
        \A p \in Cells(num_rows, num_cols) :
            /\ CellAt(grid, num_cols, p[1], p[2]) \in {Dead, Alive}
            /\ CellAt(grid, num_cols, p[1], p[2]) = Alive
                  <=> LivesNext(pre_grid, num_rows, num_cols, p[1], p[2])

\* A finished step in which one cell was born, one died of overcrowding and
\* one died of underpopulation.
C1_Witness ==
    /\ StepFinished
    /\ \E p \in Cells(num_rows, num_cols) :
          /\ CellAt(pre_grid, num_cols, p[1], p[2]) = Dead
          /\ CellAt(grid, num_cols, p[1], p[2]) = Alive
    /\ \E p \in Cells(num_rows, num_cols) :
          /\ CellAt(pre_grid, num_cols, p[1], p[2]) = Alive
          /\ MooreCount(pre_grid, num_rows, num_cols, p[1], p[2]) > 3
          /\ CellAt(grid, num_cols, p[1], p[2]) = Dead
    /\ \E p \in Cells(num_rows, num_cols) :
          /\ CellAt(pre_grid, num_cols, p[1], p[2]) = Alive
          /\ MooreCount(pre_grid, num_rows, num_cols, p[1], p[2]) < 2
          /\ CellAt(grid, num_cols, p[1], p[2]) = Dead

\* C2 (as claimed): every read or write (get, set, set_cells, is_cell_alive)
\* at a coordinate with row >= rows or col >= cols fails with an
\* out-of-bounds error.
C2_OutOfBoundsRejected ==
    \A r \in 0..num_rows, c \in 0..num_cols :
        (r >= num_rows \/ c >= num_cols) =>
            /\ get(Self, r, c).panic
            /\ is_cell_alive(Self, r, c).panic
            /\ set(Self, r, c, Alive).panic
            /\ set_cells(Self, << <<r, c>> >>).panic

\* C3: for every in-bounds cell, get_neighbor_count equals the number of Alive
\* cells among the Moore neighbours inside the grid (no wraparound), is at
\* most 8, and at most 3 for the corner (0, 0); in game.rs and in main.rs.
C3_NeighborCount ==
    \A p \in Cells(num_rows, num_cols) :
        LET n == MooreCount(grid, num_rows, num_cols, p[1], p[2])
            g == get_neighbor_count(Self, p[1], p[2])
            m == main_get_neighbor_count(Self, p[1], p[2])
        IN  /\ ~g.panic /\ g.value = n
            /\ ~m.panic /\ m.value = n
            /\ g.value <= 8
            /\ (p = <<0, 0>> => g.value <= 3)

\* A cell all of whose eight neighbours are alive, and a corner with three.
C3_Witness ==
    /\ num_rows = 3
    /\ num_cols = 3
    /\ get_neighbor_count(Self, 1, 1).value = 8
    /\ get_neighbor_count(Self, 0, 0).value = 3

\* The neighbour count of (0, 0) is the same before and after
\* set_cells(&[(0, num_cols - 1)]) on a grid where that cell is Dead.
LastColumnNotCounted ==
    LET last == num_cols - 1
        after == set_cells(Self, << <<0, last>> >>)
    IN  CellAt(grid, num_cols, 0, last) = Dead =>
            /\ ~after.panic
            /\ get_neighbor_count([Self EXCEPT !.grid = after.grid], 0, 0).value
                  = get_neighbor_count(Self, 0, 0).value

\* C4 (as claimed): in a grid of one row and c columns, for every c, setting
\* (0, c-1) Alive does not change the neighbour count of (0, 0).
C4_NoWrapAnyWidth ==
    (num_rows = 1 /\ num_cols >= 1) => LastColumnNotCounted

\* C4 (amended): the same for every width but 2, where (0, c-1) = (0, 1) is
\* the right-hand neighbour of (0, 0).
C4_NoWrapOneRow ==
    (num_rows = 1 /\ num_cols >= 1 /\ num_cols # 2) => LastColumnNotCounted

\* A one-row grid, three wide, whose last cell has been set Alive while
\* (0, 0) still counts no neighbour.
C4_Witness ==
    /\ num_rows = 1
    /\ num_cols = 3
    /\ pc = "idle"
    /\ CellAt(grid, num_cols, 0, 2) = Alive
    /\ get_neighbor_count(Self, 0, 0).value = 0

\* C5: the generation is 0 on construction and is always the number of
\* step() calls made so far: every step() adds exactly 1, nothing else
\* changes it, whatever the grid holds.
C5_GenerationCountsSteps == generation = step_calls

\* Two steps of an empty grid, and set_cells calls, leave generation = 2.
C5_Witness ==
    /\ pc = "idle"
    /\ num_rows * num_cols = 0
    /\ step_calls = 2
    /\ generation = 2

\* A transition made by step() (and not by set_cells).
StepTransition == pc \in {"eval", "commit"} \/ pc' \in {"eval", "commit"}

\* C6: once no cell is alive, a step() does not panic, leaves the grid
\* all-dead at each of its transitions, and still adds 1 to the generation;
\* and a step() that starts with exactly one live cell ends all-dead.
C6_Extinction ==
    [][StepTransition =>
          /\ ~is_any_cell_alive(Self) =>
                /\ ~is_any_cell_alive([Self EXCEPT !.grid = grid'])
                /\ pc' # "step_panicked"
                /\ (pc = "idle" => generation' = generation + 1)
          /\ (StepFinished /\ Cardinality(LiveSet(pre_grid, num_rows, num_cols)) = 1)
                => ~is_any_cell_alive(Self)]_vars

\* A second step of a non-empty grid that was already all-dead has finished.
C6_Witness ==
    /\ StepFinished
    /\ generation = 2
    /\ Len(grid) > 0
    /\ ~is_any_cell_alive([Self EXCEPT !.grid = pre_grid])
    /\ ~is_any_cell_alive(Self)

Horizontal == {<<2, 1>>, <<2, 2>>, <<2, 3>>}
Vertical == {<<1, 2>>, <<2, 2>>, <<3, 2>>}

\* A game.rs simulation that was seeded with the blinker, between steps.
BlinkerRunIdle ==
    /\ pc = "idle"
    /\ CellAt(grid, num_cols, 2, 2) = Alive
    /\ CellAt(grid, num_cols, 1, 1) = Dead

\* C7: the blinker is vertical after every odd number of steps and horizontal
\* after every even number (main.rs driver and game.rs simulation), some
\* cell is alive whenever the driver looks, and the driver's loop ends only
\* when its range is exhausted.
C7_Blinker ==
    /\ pc \notin {"main_panicked", "step_panicked"}
    /\ BlinkerRunIdle =>
          /\ LiveSet(grid, num_rows, num_cols)
                = IF generation % 2 = 1 THEN Vertical ELSE Horizontal
          /\ is_any_cell_alive(Self)
    /\ pc \in {"main_loop", "main_check", "main_done"} =>
          /\ LiveSet(grid, num_rows, num_cols)
                = IF generation % 2 = 1 THEN Vertical ELSE Horizontal
          /\ main_is_any_cell_alive(Self)
          /\ generation = step_calls
    /\ pc = "main_loop" => generation = i
    /\ pc = "main_done" => (i = Iterations /\ generation = Iterations)

\* The driver has run all of its iterations.
C7_Witness ==
    /\ pc = "main_done"
    /\ i = Iterations
    /\ LiveSet(grid, num_rows, num_cols) = Vertical

Block == {<<1, 1>>, <<1, 2>>, <<2, 1>>, <<2, 2>>}

\* C8: a step() that starts with exactly the block alive schedules no
\* operation, never changes the grid and does not panic, so the block is
\* what is alive after it; and the generation counts the steps.
C8_BlockStill ==
    /\ generation = step_calls
    /\ pc # "step_panicked"
    /\ (pc \in {"eval", "commit"}
          /\ LiveSet(pre_grid, num_rows, num_cols) = Block)
          => /\ operations = <<>>
             /\ grid = pre_grid
    /\ (pc = "idle" /\ CellAt(grid, num_cols, 1, 1) = Alive)
          => LiveSet(grid, num_rows, num_cols) = Block

\* The block after MaxGen steps.
C8_Witness ==
    /\ pc = "idle"
    /\ generation = MaxGen
    /\ LiveSet(grid, num_rows, num_cols) = Block

\* C9: while step() evaluates, the grid is the grid at its start; every
\* scheduled operation targets a cell of the grid that no other operation
\* targets, sets it to the opposite of its state at the start, and until it
\* is applied that cell still holds its state at the start.
C9_TwoPhase ==
    /\ pc = "eval" => grid = pre_grid
    /\ pc \in {"eval", "commit"} =>
          \A k \in 1..Len(operations) :
              LET op == operations[k]
              IN  /\ InGrid(num_rows, num_cols, op.row, op.col)
                  /\ op.state # CellAt(pre_grid, num_cols, op.row, op.col)
                  /\ CellAt(grid, num_cols, op.row, op.col)
                        = CellAt(pre_grid, num_cols, op.row, op.col)
                  /\ \A j \in 1..Len(operations) :
                        (j # k) => <<operations[j].row, operations[j].col>>
                                      # <<op.row, op.col>>
    /\ pc = "eval" =>
          \A k \in 1..Len(operations) :
              \/ operations[k].row < row
              \/ operations[k].row = row /\ operations[k].col < col

\* The commit loop has applied some operations and still holds two.
C9_Witness ==
    /\ pc = "commit"
    /\ grid # pre_grid
    /\ Len(operations) >= 2

\* Every index in [0, rows * cols).
ValidIndex(idx) == idx >= 0 /\ idx < num_rows * num_cols

\* What C10 says of a single state.
StepSafe ==
    /\ pc # "step_panicked"
    /\ Len(grid) = num_rows * num_cols
    /\ (pc = "eval" /\ row < num_rows /\ col < num_cols) =>
          /\ ValidIndex(cell_to_index(Self, row, col))
          /\ LET probes == neighbor_probes(Self, row, col)
             IN  \A k \in 1..Len(probes) :
                     /\ ValidIndex(cell_to_index(Self, probes[k][1], probes[k][2]))
                     /\ InGrid(num_rows, num_cols, probes[k][1], probes[k][2])
    /\ pc = "commit" =>
          \A k \in 1..Len(operations) :
              ValidIndex(cell_to_index(Self, operations[k].row, operations[k].col))

\* C10: step() never panics on a grid of rows x cols cells (empty grids
\* included): every index it reads or writes is in [0, rows * cols), and the
\* dimensions and the length of the cell array never change.
C10_StepCannotFail ==
    /\ []StepSafe
    /\ [][/\ num_rows' = num_rows
          /\ num_cols' = num_cols
          /\ Len(grid') = Len(grid)]_vars

\* The third step of a 3x3 grid with live cells is evaluating its last cell.
C10_Witness ==
    /\ pc = "eval"
    /\ num_rows = 3
    /\ num_cols = 3
    /\ row = 2
    /\ col = 2
    /\ generation = 3
    /\ is_any_cell_alive(Self)

====
